---------------------------- MODULE Spec2Model ----------------------------
(***************************************************************************)
(* A model of study-log (src/app/groups.py, src/app/events.py,             *)
(* src/app/log_tool.py): the typed-column record engine log_item, the day  *)
(* viewer show_day, the item locator and the type validators.              *)
(*                                                                         *)
(* Text is modelled as sequences of one-character strings, so that         *)
(* parsing and formatting are computed character by character as the       *)
(* Python code computes them.  Column names, type tags and file names are  *)
(* only ever compared for equality and are kept as atomic strings.         *)
(***************************************************************************)
EXTENDS Integers, Sequences, FiniteSets, TLC

VARIABLES
  files,      \* DATA_DIR: file name -> the rows csv.reader yields for it
  eventLog,   \* log.txt: the lines appended so far (timestamps left out)
  last,       \* what the last operation returned, raised and held in memory
  nops,       \* number of operations run so far
  probe,      \* input and outputs of the pure duration functions
  procs,      \* the running invocations: position and memory of each
  durSum      \* seconds logged so far by the duration-accumulation scenario

vars == <<files, eventLog, last, nops, probe, procs, durSum>>

---------------------------------------------------------------------------
(* Python str and int primitives                                           *)

DigitChars == <<"0", "1", "2", "3", "4", "5", "6", "7", "8", "9">>

IsDigit(c) == \E i \in 1..10 : DigitChars[i] = c

DigitVal(c) == (CHOOSE i \in 1..10 : DigitChars[i] = c) - 1

\* str.isspace for the whitespace characters the model's inputs use
IsSpace(c) == c \in {" ", "\t", "\n", "\r"}

UpperChars == <<"A", "B", "C", "D", "E", "F", "G", "H", "I", "J", "K", "L", "M",
                "N", "O", "P", "Q", "R", "S", "T", "U", "V", "W", "X", "Y", "Z">>

LowerChars == <<"a", "b", "c", "d", "e", "f", "g", "h", "i", "j", "k", "l", "m",
                "n", "o", "p", "q", "r", "s", "t", "u", "v", "w", "x", "y", "z">>

LowerChar(c) ==
  IF \E i \in 1..26 : UpperChars[i] = c
    THEN LowerChars[CHOOSE i \in 1..26 : UpperChars[i] = c]
    ELSE c

\* str.lower()
Lower(s) == [i \in 1..Len(s) |-> LowerChar(s[i])]

RECURSIVE LStrip(_)
LStrip(s) == IF s /= <<>> /\ IsSpace(Head(s)) THEN LStrip(Tail(s)) ELSE s

RECURSIVE RStrip(_)
RStrip(s) ==
  IF s /= <<>> /\ IsSpace(s[Len(s)]) THEN RStrip(SubSeq(s, 1, Len(s) - 1)) ELSE s

\* str.strip()
Strip(s) == RStrip(LStrip(s))

\* str.split(sep): the fields between the occurrences of the character sep
RECURSIVE SplitFrom(_, _, _, _)
SplitFrom(s, sep, i, cur) ==
  IF i > Len(s) THEN <<cur>>
  ELSE IF s[i] = sep THEN <<cur>> \o SplitFrom(s, sep, i + 1, <<>>)
  ELSE SplitFrom(s, sep, i + 1, Append(cur, s[i]))

Split(s, sep) == SplitFrom(s, sep, 1, <<>>)

\* the digits of int(): decimal digits, single underscores only between digits
RECURSIVE DigitsOk(_, _)
DigitsOk(s, i) ==
  IF i > Len(s) THEN TRUE
  ELSE IF IsDigit(s[i]) THEN DigitsOk(s, i + 1)
  ELSE /\ s[i] = "_"
       /\ i > 1 /\ i < Len(s)
       /\ IsDigit(s[i - 1]) /\ IsDigit(s[i + 1])
       /\ DigitsOk(s, i + 1)

RECURSIVE DigitsValue(_, _, _)
DigitsValue(s, i, acc) ==
  IF i > Len(s) THEN acc
  ELSE IF s[i] = "_" THEN DigitsValue(s, i + 1, acc)
  ELSE DigitsValue(s, i + 1, acc * 10 + DigitVal(s[i]))

\* int(s): surrounding whitespace is stripped, one optional sign, then digits;
\* ok = FALSE stands for ValueError
IntOfDigits(negative, body) ==
  IF body = <<>> \/ ~DigitsOk(body, 1)
    THEN [ok |-> FALSE, val |-> 0]
    ELSE [ok  |-> TRUE,
          val |-> IF negative THEN 0 - DigitsValue(body, 1, 0)
                              ELSE DigitsValue(body, 1, 0)]

IntOfStripped(t) ==
  IF t /= <<>> /\ Head(t) \in {"+", "-"}
    THEN IntOfDigits(Head(t) = "-", Tail(t))
    ELSE IntOfDigits(FALSE, t)

PyInt(s) == IntOfStripped(Strip(s))

RECURSIVE NatStr(_)
NatStr(n) ==
  IF n < 10 THEN <<DigitChars[n + 1]>>
  ELSE Append(NatStr(n \div 10), DigitChars[(n % 10) + 1])

\* str(n) of an int: the canonical decimal string
PyStr(n) == IF n < 0 THEN <<"-">> \o NatStr(0 - n) ELSE NatStr(n)

\* f"{n:02d}": zero-padded to a minimum width of two
Pad2(n) ==
  IF n < 0 THEN PyStr(n)
  ELSE IF n < 10 THEN <<"0">> \o NatStr(n)
  ELSE NatStr(n)

---------------------------------------------------------------------------
(* Type validators (groups.py 55-166)                                      *)

NA == <<"N", "/", "A">>

validate_integer(value_str) == PyInt(value_str)

is_na_input(value_str) ==
  Lower(Strip(value_str)) \in {<<"n", "a">>, <<"n", "/", "a">>}

Truthy == {<<"t">>, <<"t", "r", "u", "e">>, <<"y">>, <<"y", "e", "s">>, <<"1">>}

Falsy == {<<"f">>, <<"f", "a", "l", "s", "e">>, <<"n">>, <<"n", "o">>, <<"0">>}

BooleanOf(s) ==
  IF s \in Truthy THEN [ok |-> TRUE, val |-> <<"T", "R", "U", "E">>]
  ELSE IF s \in Falsy THEN [ok |-> TRUE, val |-> <<"F", "A", "L", "S", "E">>]
  ELSE [ok |-> FALSE, val |-> <<>>]

validate_boolean(value_str) == BooleanOf(Lower(Strip(value_str)))

\* a rating validator that forgets the bounds
InRange_unchecked(p) ==
  IF ~p.ok THEN [ok |-> FALSE, val |-> 0] ELSE p

InRange(p) ==
  IF ~p.ok THEN [ok |-> FALSE, val |-> 0]
  ELSE IF ~(1 <= p.val /\ p.val <= 10) THEN [ok |-> FALSE, val |-> 0]
  ELSE p

validate_int_range(value_str) == InRange(PyInt(value_str))

\* the range check and the total, once int() has converted every field
SecondsOf(hh, mm, ss) ==
  IF ~(hh.ok /\ mm.ok /\ ss.ok) THEN [ok |-> FALSE, val |-> 0]
  ELSE IF mm.val < 0 \/ mm.val >= 60 \/ ss.val < 0 \/ ss.val >= 60 \/ hh.val < 0
    THEN [ok |-> FALSE, val |-> 0]
  ELSE [ok |-> TRUE, val |-> hh.val * 3600 + mm.val * 60 + ss.val]

SecondsOfParts(parts) ==
  IF Len(parts) = 2
    THEN SecondsOf([ok |-> TRUE, val |-> 0], PyInt(parts[1]), PyInt(parts[2]))
  ELSE IF Len(parts) = 3
    THEN SecondsOf(PyInt(parts[1]), PyInt(parts[2]), PyInt(parts[3]))
  ELSE [ok |-> FALSE, val |-> 0]

\* ok = FALSE stands for ValueError
parse_duration_to_seconds(value_str) == SecondsOfParts(Split(value_str, ":"))

\* f"{hh:02d}:{mm:02d}:{ss:02d}"
Clock(hh, mm, ss) == Pad2(hh) \o <<":">> \o Pad2(mm) \o <<":">> \o Pad2(ss)

\* a formatter that forgets to reduce the minutes modulo the hour
format_minutes_not_reduced(total_seconds) ==
  IF total_seconds < 0 THEN [ok |-> FALSE, val |-> <<>>]
  ELSE [ok  |-> TRUE,
        val |-> Clock(total_seconds \div 3600, total_seconds \div 60,
                      (total_seconds % 3600) % 60)]

\* ok = FALSE stands for ValueError("Duration cannot be negative.")
format_seconds_as_duration(total_seconds) ==
  IF total_seconds < 0 THEN [ok |-> FALSE, val |-> <<>>]
  ELSE [ok  |-> TRUE,
        val |-> Clock(total_seconds \div 3600,
                      (total_seconds % 3600) \div 60,
                      (total_seconds % 3600) % 60)]

---------------------------------------------------------------------------
(* Tabular store I/O and table enumeration (groups.py 11-52)               *)

\* Path.glob results in sorted() order; a group's name is its file's stem
FileOrder == <<"habits", "legacy", "scratch", "study">>

RECURSIVE SortedNames(_, _)
SortedNames(fs, i) ==
  IF i > Len(FileOrder) THEN <<>>
  ELSE (IF FileOrder[i] \in DOMAIN fs THEN <<FileOrder[i]>> ELSE <<>>)
         \o SortedNames(fs, i + 1)

\* ok = FALSE stands for RuntimeError("No group CSV files found")
list_group_files(fs) ==
  IF DOMAIN fs = {} THEN [ok |-> FALSE, names |-> <<>>]
  ELSE [ok |-> TRUE, names |-> SortedNames(fs, 1)]

\* ok = FALSE stands for RuntimeError("must have at least 2 rows")
load_group_csv(fs, group_file) ==
  LET reader == fs[group_file]
  IN  IF Len(reader) < 2
        THEN [ok |-> FALSE, headers |-> <<>>, types |-> <<>>, rows |-> <<>>]
        ELSE [ok      |-> TRUE,
              headers |-> reader[1],
              types   |-> reader[2],
              rows    |-> SubSeq(reader, 3, Len(reader))]

save_group_csv(fs, group_file, headers, types, rows) ==
  [fs EXCEPT ![group_file] = <<headers, types>> \o rows]

---------------------------------------------------------------------------
(* Item locator (groups.py 169-213)                                        *)

InList(x, seq) == \E i \in 1..Len(seq) : seq[i] = x

\* list.index(x) as a position counted from 1 (Python counts from 0)
IndexOf(x, seq) == CHOOSE i \in 1..Len(seq) : seq[i] = x /\ \A j \in 1..(i - 1) : seq[j] /= x

\* the loop over list_group_files(): the first table that fails to load, or
\* that holds the item but no Log_Date column, raises at once
RECURSIVE ScanGroups(_, _, _, _, _)
ScanGroup(fs, names, i, item_name, matches, g) ==
  IF ~g.ok THEN [outcome |-> "malformed", matches |-> matches, at |-> names[i]]
  ELSE IF ~InList(item_name, g.headers)
    THEN ScanGroups(fs, names, i + 1, item_name, matches)
  ELSE IF ~InList("Log_Date", g.headers)
    THEN [outcome |-> "no_log_date", matches |-> matches, at |-> names[i]]
  ELSE ScanGroups(fs, names, i + 1, item_name,
                  Append(matches,
                         [group_file   |-> names[i],
                          item_col     |-> IndexOf(item_name, g.headers),
                          log_date_col |-> IndexOf("Log_Date", g.headers)]))

ScanGroups(fs, names, i, item_name, matches) ==
  IF i > Len(names) THEN [outcome |-> "scanned", matches |-> matches, at |-> ""]
  ELSE ScanGroup(fs, names, i, item_name, matches, load_group_csv(fs, names[i]))

\* outcome "ok": matches holds the one location returned; any other outcome
\* is the RuntimeError raised ("ambiguous" lists every match in matches)
\* a locator that settles for the first match instead of rejecting ambiguity
Located_first_match(scan) ==
  IF scan.outcome /= "scanned" THEN scan
  ELSE IF scan.matches = <<>> THEN [scan EXCEPT !.outcome = "not_found"]
  ELSE [scan EXCEPT !.outcome = "ok"]

Located(scan) ==
  IF scan.outcome /= "scanned" THEN scan
  ELSE IF scan.matches = <<>> THEN [scan EXCEPT !.outcome = "not_found"]
  ELSE IF Len(scan.matches) > 1 THEN [scan EXCEPT !.outcome = "ambiguous"]
  ELSE [scan EXCEPT !.outcome = "ok"]

find_item_location(fs, item_name) ==
  IF ~list_group_files(fs).ok THEN [outcome |-> "no_files", matches |-> <<>>, at |-> ""]
  ELSE Located(ScanGroups(fs, list_group_files(fs).names, 1, item_name, <<>>))

---------------------------------------------------------------------------
(* Record engine (groups.py 216-334)                                       *)

Blank(n) == [k \in 1..n |-> <<>>]

\* row.extend([""] * (len(headers) - len(row))) when the row is short
PadRow(row, n) == IF Len(row) < n THEN row \o Blank(n - Len(row)) ELSE row

\* the loop of step 4: rows are padded in place until the first row whose
\* date-key cell equals log_date (idx = 0: no such row)
RECURSIVE ScanRows(_, _, _, _, _)
ScanRow(padded, i, n, log_date_col, log_date) ==
  IF padded[i][log_date_col] = log_date
    THEN [rows |-> padded, idx |-> i]
    ELSE ScanRows(padded, i + 1, n, log_date_col, log_date)

ScanRows(rows, i, n, log_date_col, log_date) ==
  IF i > Len(rows) THEN [rows |-> rows, idx |-> 0]
  ELSE ScanRow([rows EXCEPT ![i] = PadRow(rows[i], n)], i, n, log_date_col, log_date)

\* the row appended when no row holds the date
NewRow(n, log_date_col, log_date) == [Blank(n) EXCEPT ![log_date_col] = log_date]

TargetOf(scan, n, log_date_col, log_date) ==
  IF scan.idx /= 0
    THEN [rows |-> scan.rows, idx |-> scan.idx, created |-> FALSE]
    ELSE [rows    |-> Append(scan.rows, NewRow(n, log_date_col, log_date)),
          idx     |-> Len(scan.rows) + 1,
          created |-> TRUE]

\* a scan that pads every row of the table, also those after the match
find_or_create_row_padding_all(rows, headers, log_date_col, log_date) ==
  TargetOf(ScanRows([i \in 1..Len(rows) |-> PadRow(rows[i], Len(headers))], 1,
                    Len(headers), log_date_col, log_date),
           Len(headers), log_date_col, log_date)

\* step 4: find or create the row for log_date, in memory
find_or_create_row(rows, headers, log_date_col, log_date) ==
  TargetOf(ScanRows(rows, 1, Len(headers), log_date_col, log_date),
           Len(headers), log_date_col, log_date)

\* cell or "N/A"
OrNA(cell) == IF cell = <<>> THEN NA ELSE cell

\* a lookup that counts an unreadable cell as one minute
ExistingSeconds_unreadable_counted(existing_str, parsed) ==
  IF existing_str /= <<>>
    THEN (IF parsed.ok THEN parsed.val ELSE 60)
    ELSE 0

ExistingSeconds(existing_str, parsed) ==
  IF existing_str /= <<>> /\ existing_str /= NA
    THEN (IF parsed.ok THEN parsed.val ELSE 0)
    ELSE 0

\* the existing total of a duration cell: a cell that is empty, "N/A" or
\* does not parse counts as 0 seconds
existing_seconds_of(cell) ==
  IF cell /= <<>>
    THEN ExistingSeconds(Strip(cell), parse_duration_to_seconds(Strip(cell)))
    ELSE 0

Failed == [outcome |-> "validation", previous |-> <<>>, value |-> <<>>]

\* SET: the validated value replaces the cell
SetValue(v, cell, text) ==
  IF ~v.ok THEN Failed
  ELSE [outcome |-> "ok", previous |-> OrNA(cell), value |-> text]

\* a duration column that overwrites like the other types
AddDuration_overwrite(added, existing_seconds) ==
  IF ~added.ok THEN Failed
  ELSE [outcome  |-> "ok",
        previous |-> format_seconds_as_duration(existing_seconds).val,
        value    |-> format_seconds_as_duration(added.val).val]

\* ADD: the validated seconds are added to the existing total
AddDuration(added, existing_seconds) ==
  IF ~added.ok THEN Failed
  ELSE [outcome  |-> "ok",
        previous |-> format_seconds_as_duration(existing_seconds).val,
        value    |-> format_seconds_as_duration(existing_seconds + added.val).val]

\* an integer column that adds the input to what the cell holds
IntegerValue_add(v, cell) ==
  SetValue(v, cell, PyStr(v.val + (IF PyInt(cell).ok THEN PyInt(cell).val ELSE 0)))

IntegerValue(v, cell) == SetValue(v, cell, PyStr(v.val))

BooleanValue(v, cell) == SetValue(v, cell, v.val)

\* a dispatch that looks at the type tag before the N/A sentinel
resolve_value_type_first(item_type, value_str, cell) ==
  IF item_type = "integer" /\ ~is_na_input(value_str)
    THEN IntegerValue(validate_integer(value_str), cell)
  ELSE IF item_type = "duration" /\ ~is_na_input(value_str)
    THEN AddDuration(parse_duration_to_seconds(value_str), existing_seconds_of(cell))
  ELSE IF item_type = "boolean" /\ ~is_na_input(value_str)
    THEN BooleanValue(validate_boolean(value_str), cell)
  ELSE IF item_type = "int_range" /\ ~is_na_input(value_str)
    THEN IntegerValue(validate_int_range(value_str), cell)
  ELSE IF item_type \notin {"integer", "duration", "boolean", "int_range"}
    THEN [outcome |-> "unsupported", previous |-> <<>>, value |-> <<>>]
  ELSE [outcome |-> "ok", previous |-> OrNA(cell), value |-> NA]

\* steps 5 and 6: the N/A override, then dispatch on the type tag
\* a dispatch that stores the input as it is under any other type tag
resolve_value_untyped_set(item_type, value_str, cell) ==
  IF is_na_input(value_str)
    THEN [outcome |-> "ok", previous |-> OrNA(cell), value |-> NA]
  ELSE IF item_type = "integer"
    THEN IntegerValue(validate_integer(value_str), cell)
  ELSE IF item_type = "duration"
    THEN AddDuration(parse_duration_to_seconds(value_str), existing_seconds_of(cell))
  ELSE IF item_type = "boolean"
    THEN BooleanValue(validate_boolean(value_str), cell)
  ELSE IF item_type = "int_range"
    THEN IntegerValue(validate_int_range(value_str), cell)
  ELSE [outcome |-> "ok", previous |-> OrNA(cell), value |-> value_str]

resolve_value(item_type, value_str, cell) ==
  IF is_na_input(value_str)
    THEN [outcome |-> "ok", previous |-> OrNA(cell), value |-> NA]
  ELSE IF item_type = "integer"
    THEN IntegerValue(validate_integer(value_str), cell)
  ELSE IF item_type = "duration"
    THEN AddDuration(parse_duration_to_seconds(value_str), existing_seconds_of(cell))
  ELSE IF item_type = "boolean"
    THEN BooleanValue(validate_boolean(value_str), cell)
  ELSE IF item_type = "int_range"
    THEN IntegerValue(validate_int_range(value_str), cell)
  ELSE [outcome |-> "unsupported", previous |-> <<>>, value |-> <<>>]

\* target_row[item_col] = value, reached only when resolution succeeded
RowsWritten(target, item_col, res) ==
  IF res.outcome = "ok"
    THEN [target.rows EXCEPT ![target.idx][item_col] = res.value]
    ELSE target.rows

\* a log_item that saves before it validates
files_saved_early(fs, outcome, group_file, headers, types, rows) ==
  IF outcome \in {"ok", "validation"}
    THEN save_group_csv(fs, group_file, headers, types, rows)
    ELSE fs

\* step 7: save_group_csv is reached only when no step before it raised
files_after_log_item(fs, outcome, group_file, headers, types, rows) ==
  IF outcome = "ok" THEN save_group_csv(fs, group_file, headers, types, rows) ELSE fs

\* step 8: the message handed to log_event and printed
UpdatedLine(item_name, group_name, log_date, res) ==
  IF res.outcome = "ok"
    THEN <<"UPDATED", item_name, group_name, log_date, res.previous, res.value>>
    ELSE <<>>

\* what log_item leaves when find_item_location raised
NotLocated(fs, item_name, log_date, found) ==
  [op |-> "log_item", outcome |-> found.outcome, item |-> item_name,
   date |-> log_date, before |-> fs, files |-> fs, line |-> <<>>, group |-> found.at,
   row |-> 0, col |-> 0, created |-> FALSE, previous |-> <<>>,
   value |-> <<>>, matches |-> found.matches, shown |-> <<>>]

\* steps 5 to 8, given the located table and the target row
LogResolved(fs, item_name, log_date, m, g, target, res) ==
  [op |-> "log_item", outcome |-> res.outcome, item |-> item_name,
   date |-> log_date, before |-> fs,
   files |-> files_after_log_item(fs, res.outcome, m.group_file, g.headers, g.types,
                                  RowsWritten(target, m.item_col, res)),
   line |-> UpdatedLine(item_name, m.group_file, log_date, res),
   group |-> m.group_file, row |-> target.idx, col |-> m.item_col,
   created |-> target.created, previous |-> res.previous, value |-> res.value,
   matches |-> <<m>>, shown |-> <<>>]

LogInRow(fs, item_name, value_str, log_date, m, g, target) ==
  LogResolved(fs, item_name, log_date, m, g, target,
              resolve_value(g.types[m.item_col], value_str,
                            target.rows[target.idx][m.item_col]))

LogInGroup(fs, item_name, value_str, log_date, m, g) ==
  LogInRow(fs, item_name, value_str, log_date, m, g,
           find_or_create_row(g.rows, g.headers, m.log_date_col, log_date))

LogLocated(fs, item_name, value_str, log_date, found) ==
  IF found.outcome /= "ok" THEN NotLocated(fs, item_name, log_date, found)
  ELSE LogInGroup(fs, item_name, value_str, log_date, found.matches[1],
                  load_group_csv(fs, found.matches[1].group_file))

\* log_item as a function of the store: the store it leaves, the line it
\* sends to log_event (<<>>: none) and what it held when it returned or raised
log_item(fs, item_name, value_str, log_date) ==
  LogLocated(fs, item_name, value_str, log_date, find_item_location(fs, item_name))

---------------------------------------------------------------------------
(* Day viewer (groups.py 337-399)                                          *)

\* zip(headers, target_row) filtered to the non-empty cells
RECURSIVE NonEmptyPairs(_, _, _)
NonEmptyPairs(headers, row, i) ==
  IF i > Len(headers) \/ i > Len(row) THEN <<>>
  ELSE (IF row[i] /= <<>> THEN << <<headers[i], row[i]>> >> ELSE <<>>)
         \o NonEmptyPairs(headers, row, i + 1)

\* a viewer that lists a group whether or not its row holds anything
WithData_always(group_name, non_empty) ==
  <<[group |-> group_name, pairs |-> non_empty]>>

\* groups_with_data.append((group_name, non_empty)) unless non_empty is empty
WithData(group_name, non_empty) ==
  IF non_empty = <<>> THEN <<>> ELSE <<[group |-> group_name, pairs |-> non_empty]>>

\* one group's contribution once its date row has been looked for
GroupData(group_name, headers, scan) ==
  IF scan.idx = 0 THEN <<>>
  ELSE WithData(group_name, NonEmptyPairs(headers, scan.rows[scan.idx], 1))

\* the body of the loop for one group: a table without Log_Date, without a
\* row for the date or with only empty cells in that row contributes nothing
GroupView(group_name, g, log_date) ==
  IF ~InList("Log_Date", g.headers) THEN <<>>
  ELSE GroupData(group_name, g.headers,
                 ScanRows(g.rows, 1, Len(g.headers),
                          IndexOf("Log_Date", g.headers), log_date))

\* the loop over the groups; a file that does not load raises (ok = FALSE)
RECURSIVE ShowGroups(_, _, _, _, _)
ShowGroup(fs, names, i, log_date, acc, g) ==
  IF ~g.ok THEN [ok |-> FALSE, groups |-> acc]
  ELSE ShowGroups(fs, names, i + 1, log_date, acc \o GroupView(names[i], g, log_date))

ShowGroups(fs, names, i, log_date, acc) ==
  IF i > Len(names) THEN [ok |-> TRUE, groups |-> acc]
  ELSE ShowGroup(fs, names, i, log_date, acc, load_group_csv(fs, names[i]))

\* a viewer that writes back the rows it padded while looking for the date
ShowReport_saving_padded(fs, log_date, outcome, line, shown) ==
  [op |-> "show_day", outcome |-> outcome, item |-> "",
   date |-> log_date, before |-> fs,
   files |-> [n \in DOMAIN fs |->
                [i \in 1..Len(fs[n]) |->
                   IF i > 2 THEN PadRow(fs[n][i], Len(fs[n][1])) ELSE fs[n][i]]],
   line |-> line, group |-> "",
   row |-> 0, col |-> 0, created |-> FALSE, previous |-> <<>>,
   value |-> <<>>, matches |-> <<>>, shown |-> shown]

ShowReport(fs, log_date, outcome, line, shown) ==
  [op |-> "show_day", outcome |-> outcome, item |-> "",
   date |-> log_date, before |-> fs, files |-> fs, line |-> line, group |-> "",
   row |-> 0, col |-> 0, created |-> FALSE, previous |-> <<>>,
   value |-> <<>>, matches |-> <<>>, shown |-> shown]

ShowListed(fs, log_date, view) ==
  IF ~view.ok THEN ShowReport(fs, log_date, "malformed", <<>>, <<>>)
  ELSE IF view.groups = <<>>
    THEN ShowReport(fs, log_date, "no_data", <<"NODATA", log_date>>, <<>>)
  ELSE ShowReport(fs, log_date, "ok", <<"SHOW", log_date, Len(view.groups)>>,
                  view.groups)

\* show_day as a function of the store: the listing it prints (shown), the
\* line it sends to log_event, and the store, which it never saves
show_day(fs, log_date) ==
  IF ~list_group_files(fs).ok THEN ShowReport(fs, log_date, "no_files", <<>>, <<>>)
  ELSE ShowListed(fs, log_date,
                  ShowGroups(fs, list_group_files(fs).names, 1, log_date, <<>>))

---------------------------------------------------------------------------
(* The stores, the inputs and the bounds of the model                      *)

D1 == <<"2", "0", "2", "6", "-", "0", "2", "-", "0", "1">>

D2 == <<"2", "0", "2", "6", "-", "0", "2", "-", "0", "2">>

\* the date "log <item> <value> -" and "show ''" hand over: the empty string
NoDate == <<>>

Dates == {D1, D2, NoDate}

\* study.csv: the row for D1 holds a duration cell that does not parse, and
\* the file ends with a blank line, which csv.reader yields as an empty row
StudyFile ==
  << <<"Log_Date", "Minutes", "Focus_Time">>,
     <<"date", "integer", "duration">>,
     <<D1, <<"4", "5">>, <<"1", "h">>>>,
     <<>> >>

\* habits.csv: the date key is not the first column; its one row is short
HabitsFile ==
  << <<"Mood", "Log_Date", "Done", "Note">>,
     <<"int_range", "date", "boolean", "text">>,
     <<<<"7">>, D1>> >>

\* legacy.csv: no Log_Date column; it also declares a Minutes column
LegacyFile ==
  << <<"Day", "Pages", "Minutes">>,
     <<"date", "integer", "integer">>,
     <<D1, <<"3">>>> >>

\* scratch.csv: a header row only, so load_group_csv refuses it
ScratchFile == << <<"Log_Date", "Pages">> >>

AllFiles ==
  [habits |-> HabitsFile, legacy |-> LegacyFile,
   scratch |-> ScratchFile, study |-> StudyFile]

Store(names) == [n \in names |-> AllFiles[n]]

Stores ==
  {Store(S) : S \in {{"study"}, {"habits", "study"}, {"legacy", "study"},
                     {"scratch", "study"}, {}}}

Items == {"Log_Date", "Minutes", "Focus_Time", "Mood", "Done", "Note", "Pages", "Sleep"}

Values ==
  { <<"n", "a">>, <<" ", "N", "/", "A">>,
    <<"4", "5">>, <<"+", "7">>, <<"y">>,
    <<"1", "0", ":", "0", "0">>, <<"5", ":", "3">>,
    <<"1", ":", "6", "0">>, <<"a", "b">> }

\* operations per run
MaxOps == 2

NoOp ==
  [op |-> "none", outcome |-> "ok", item |-> "", date |-> <<>>, before |-> <<>>,
   group |-> "",
   row |-> 0, col |-> 0, created |-> FALSE, previous |-> <<>>, value |-> <<>>,
   matches |-> <<>>, shown |-> <<>>]

\* what an operation leaves in last: the store it started from (before), its
\* outcome and what it held in memory when it returned or raised
Report(r) ==
  [op |-> r.op, outcome |-> r.outcome, item |-> r.item, date |-> r.date,
   before |-> r.before,
   group |-> r.group, row |-> r.row, col |-> r.col, created |-> r.created,
   previous |-> r.previous, value |-> r.value, matches |-> r.matches,
   shown |-> r.shown]

\* log_event(message): one line appended to log.txt
log_event(log, line) == IF line = <<>> THEN log ELSE Append(log, line)

---------------------------------------------------------------------------
(* The sequential program: one operation at a time                         *)

Init ==
  /\ files \in Stores
  /\ eventLog = <<>>
  /\ last = NoOp
  /\ nops = 0
  /\ probe = <<>>
  /\ procs = <<>>
  /\ durSum = 0

LogItem(item_name, value_str, log_date) ==
  /\ nops < MaxOps
  /\ files' = log_item(files, item_name, value_str, log_date).files
  /\ eventLog' = log_event(eventLog, log_item(files, item_name, value_str, log_date).line)
  /\ last' = Report(log_item(files, item_name, value_str, log_date))
  /\ nops' = nops + 1
  /\ UNCHANGED <<probe, procs, durSum>>

ShowDay(log_date) ==
  /\ nops < MaxOps
  /\ files' = show_day(files, log_date).files
  /\ eventLog' = log_event(eventLog, show_day(files, log_date).line)
  /\ last' = Report(show_day(files, log_date))
  /\ nops' = nops + 1
  /\ UNCHANGED <<probe, procs, durSum>>

Next ==
  \/ \E item_name \in Items, value_str \in Values, log_date \in Dates :
       LogItem(item_name, value_str, log_date)
  \/ \E log_date \in Dates : ShowDay(log_date)

Spec == Init /\ [][Next]_vars

---------------------------------------------------------------------------
(* Shorthands of the properties                                            *)

Logged == last.op = "log_item"

Succeeded == Logged /\ last.outcome = "ok"

\* the rows of a stored table, and -in a store- the table the last call owns
RowsOf(fs, name) == SubSeq(fs[name], 3, Len(fs[name]))

HeadersOf(fs, name) == fs[name][1]

TypesOf(fs, name) == fs[name][2]

\* the type tag of the column the last call located
LastType == TypesOf(last.before, last.group)[last.col]

---------------------------------------------------------------------------
(* C1: a log_item that fails validation writes nothing                     *)

\* C1: whenever log_item fails with a validation error, every persisted
\* table, the owning one included, is identical to its state before the
\* call, also when the call had created a dated row or padded short rows in
\* memory.
C1_NoPartialWrite ==
  (Logged /\ last.outcome = "validation") => files = last.before

\* a validation failure after the call had appended a new dated row in
\* memory: the row index it wrote to lies beyond the rows that are stored
C1_Witness ==
  /\ Logged /\ last.outcome = "validation"
  /\ last.created
  /\ last.row > Len(RowsOf(files, last.group))
  /\ \E i \in 1..Len(RowsOf(files, last.group)) :
       Len(RowsOf(files, last.group)[i]) < Len(HeadersOf(files, last.group))

---------------------------------------------------------------------------
(* C2: row identity                                                        *)

\* the date-key value of a stored row; a row too short to hold the cell
\* reads as the empty string, which is what the padding makes of it
DateKey(row, log_date_col) == IF log_date_col <= Len(row) THEN row[log_date_col] ELSE <<>>

HasDateKey(fs, name) == Len(fs[name]) >= 2 /\ InList("Log_Date", HeadersOf(fs, name))

UniqueDateKeys(fs, name) ==
  \A i, j \in 1..Len(RowsOf(fs, name)) :
    i < j => DateKey(RowsOf(fs, name)[i], IndexOf("Log_Date", HeadersOf(fs, name)))
               /= DateKey(RowsOf(fs, name)[j], IndexOf("Log_Date", HeadersOf(fs, name)))

\* C2: starting from tables in which no two rows share a date-key value,
\* after any sequence of log_item calls (any item names, any raw inputs, any
\* dates) every table still has at most one row per distinct date-key value,
\* compared as exact strings.
C2_RowIdentity ==
  \A name \in DOMAIN files : HasDateKey(files, name) => UniqueDateKeys(files, name)

---------------------------------------------------------------------------
(* C3: the item locator                                                    *)

\* the tables whose header row holds the item
Holders(fs, item_name) ==
  {name \in DOMAIN fs : Len(fs[name]) >= 1 /\ InList(item_name, fs[name][1])}

\* find_item_location returned a location: log_item went on to the row
GotLocation == last.outcome \in {"ok", "validation", "unsupported"}

\* every file of a non-empty directory loads
AllLoad(fs) == DOMAIN fs /= {} /\ \A name \in DOMAIN fs : Len(fs[name]) >= 2

\* the error names every table holding the item, in listing order, each with
\* the position of the item's column (the message prints the position less 1)
NamesEvery(matches, fs, item_name) ==
  /\ {matches[k].group_file : k \in 1..Len(matches)} = Holders(fs, item_name)
  /\ Len(matches) = Cardinality(Holders(fs, item_name))
  /\ \A k \in 1..Len(matches) :
       /\ matches[k].item_col = IndexOf(item_name, HeadersOf(fs, matches[k].group_file))
       /\ \A l \in 1..Len(matches) :
            k < l => \E a, b \in 1..Len(FileOrder) :
                       /\ a < b
                       /\ FileOrder[a] = matches[k].group_file
                       /\ FileOrder[b] = matches[l].group_file

\* C3 as stated: a location is returned if and only if the item name appears
\* in the header row of exactly one table; with no such table the call fails
\* with not-found, with two or more with an ambiguity error naming every
\* matching table and its column index, and in both cases nothing is written.
\* It is read here over the stores whose every file loads, where the only
\* thing the locator looks at is the header rows.
C3_ExactlyOneTable ==
  (Logged /\ AllLoad(last.before)) =>
    /\ GotLocation <=> Cardinality(Holders(last.before, last.item)) = 1
    /\ Cardinality(Holders(last.before, last.item)) = 0
         => last.outcome = "not_found" /\ files = last.before
    /\ Cardinality(Holders(last.before, last.item)) >= 2
         => /\ last.outcome = "ambiguous"
            /\ NamesEvery(last.matches, last.before, last.item)
            /\ files = last.before

\* the tables holding the item that have no Log_Date column
Dateless(fs, item_name) ==
  {name \in Holders(fs, item_name) : ~InList("Log_Date", fs[name][1])}

\* C3 amended: a location is returned if and only if every file loads, the
\* item name appears in the header row of exactly one table and that table
\* has a Log_Date column.  When every file loads and every table holding the
\* item has a Log_Date column, no holder gives not-found and two or more give
\* an ambiguity error naming every holder and its column index.  Whenever no
\* location is returned, nothing is written.
C3_Locator ==
  Logged =>
    /\ GotLocation <=> /\ AllLoad(last.before)
                       /\ Cardinality(Holders(last.before, last.item)) = 1
                       /\ Dateless(last.before, last.item) = {}
    /\ (AllLoad(last.before) /\ Holders(last.before, last.item) = {})
         => last.outcome = "not_found"
    /\ ( /\ AllLoad(last.before)
         /\ Cardinality(Holders(last.before, last.item)) >= 2
         /\ Dateless(last.before, last.item) = {} )
         => /\ last.outcome = "ambiguous"
            /\ NamesEvery(last.matches, last.before, last.item)
    /\ ~GotLocation => files = last.before

\* an ambiguity error over two tables that both hold the item
C3_Witness ==
  /\ Logged /\ last.outcome = "ambiguous"
  /\ Cardinality(Holders(last.before, last.item)) = 2
  /\ Len(last.matches) = 2

---------------------------------------------------------------------------
(* C4: duration accumulation.  Valid durations are logged to Focus_Time on  *)
(* dates whose cell starts empty (D2 has no row yet, the blank row serves   *)
(* the empty date), and durSum adds up the seconds that were handed over.   *)

DurDates == {D2, NoDate}

DurInputs ==
  { <<"1", "0", ":", "0", "0">>, <<"5", "0", ":", "0", "0">>,
    <<"3", "0", ":", "0", "0">>, <<"1", "5", ":", "0", "0">>,
    <<"5", ":", "3">>, <<"9", "9", ":", "5", "9", ":", "3", "0">> }

\* duration calls per run
MaxDurCalls == 3

DurInit ==
  /\ files \in {Store({"study"}), Store({"habits", "study"})}
  /\ eventLog = <<>>
  /\ last = NoOp
  /\ nops = 0
  /\ probe = <<>>
  /\ procs = <<>>
  /\ durSum = [d \in DurDates |-> 0]

LogDuration(value_str, log_date) ==
  /\ nops < MaxDurCalls
  /\ parse_duration_to_seconds(value_str).ok
  /\ files' = log_item(files, "Focus_Time", value_str, log_date).files
  /\ eventLog' = log_event(eventLog, log_item(files, "Focus_Time", value_str, log_date).line)
  /\ last' = Report(log_item(files, "Focus_Time", value_str, log_date))
  /\ nops' = nops + 1
  /\ durSum' = [durSum EXCEPT ![log_date] = @ + parse_duration_to_seconds(value_str).val]
  /\ UNCHANGED <<probe, procs>>

DurNext ==
  \E value_str \in DurInputs, log_date \in DurDates : LogDuration(value_str, log_date)

DurSpec == DurInit /\ [][DurNext]_vars

\* the stored cells of a column in the rows whose date key is the date
CellsOn(fs, name, column, log_date) ==
  {RowsOf(fs, name)[i][IndexOf(column, HeadersOf(fs, name))] :
     i \in {k \in 1..Len(RowsOf(fs, name)) :
              /\ DateKey(RowsOf(fs, name)[k],
                         IndexOf("Log_Date", HeadersOf(fs, name))) = log_date
              /\ Len(RowsOf(fs, name)[k]) >= IndexOf(column, HeadersOf(fs, name))}}

\* C4: for any sequence of valid duration inputs logged to the same duration
\* item on the same date, starting from an empty cell, the stored cell after
\* the last call is format_seconds_as_duration of the sum of the
\* parse_duration_to_seconds of the inputs, whatever their order or grouping.
C4_DurationAccumulates ==
  \A d \in DurDates :
    durSum[d] > 0 =>
      CellsOn(files, "study", "Focus_Time", d) = {format_seconds_as_duration(durSum[d]).val}

\* "10:00" logged twice on D2: the cell holds "00:20:00"
C4_Witness ==
  /\ durSum[D2] = 1200
  /\ last.date = D2
  /\ last.previous = <<"0", "0", ":", "1", "0", ":", "0", "0">>
  /\ CellsOn(files, "study", "Focus_Time", D2)
       = {<<"0", "0", ":", "2", "0", ":", "0", "0">>}

---------------------------------------------------------------------------
(* C5: integer SET                                                         *)

\* the cell a call wrote to, in a store
TargetCell(fs, r) == RowsOf(fs, r.group)[r.row][r.col]

\* the raw input is not kept in last: value_str is an input of the last call
\* when log_item, run with it on the store the call started from, leaves this
\* report and this store
LastInput(value_str) ==
  /\ Logged
  /\ Report(log_item(last.before, last.item, value_str, last.date)) = last
  /\ log_item(last.before, last.item, value_str, last.date).files = files

\* C5: after a successful log_item of a valid integer input v on an integer
\* item, the target cell holds the canonical decimal string of v whatever
\* it held before, and logging the same v again leaves the store unchanged.
C5_IntegerSet ==
  \A value_str \in Values :
    ( /\ Succeeded /\ LastType = "integer"
      /\ validate_integer(value_str).ok
      /\ LastInput(value_str) )
    => /\ TargetCell(files, last) = PyStr(validate_integer(value_str).val)
       /\ log_item(files, last.item, value_str, last.date).files = files

\* an integer cell that held "45" was set to "7" by the input "+7"
C5_Witness ==
  /\ Succeeded /\ LastType = "integer"
  /\ last.previous = <<"4", "5">>
  /\ last.value = <<"7">>
  /\ TargetCell(files, last) = <<"7">>

---------------------------------------------------------------------------
(* C6: the N/A sentinel                                                    *)

\* C6: for every item, whatever its declared type tag, a log_item whose raw
\* input trims and lowercases to "na" or "n/a" succeeds and stores the
\* literal "N/A" in the target cell, discarding what the cell held.
C6_NAOverrides ==
  \A value_str \in Values :
    (GotLocation /\ is_na_input(value_str) /\ LastInput(value_str))
    => /\ last.outcome = "ok"
       /\ last.value = NA
       /\ TargetCell(files, last) = NA

\* an accumulated duration total replaced by "N/A"
C6_Witness ==
  /\ Succeeded /\ LastType = "duration"
  /\ last.previous = <<"0", "0", ":", "1", "0", ":", "0", "0">>
  /\ TargetCell(last.before, last) = <<"0", "0", ":", "1", "0", ":", "0", "0">>
  /\ TargetCell(files, last) = NA

---------------------------------------------------------------------------
(* C7: the dated row                                                       *)

\* the date has a row in the table: some row's date key equals it
HasRowOn(fs, name, log_date) ==
  \E i \in 1..Len(RowsOf(fs, name)) :
    DateKey(RowsOf(fs, name)[i], IndexOf("Log_Date", HeadersOf(fs, name))) = log_date

\* the row holds the date in its date-key cell, the value in the target cell
\* and the empty string in every other cell of the header's width
FreshRow(row, headers, log_date_col, log_date, item_col, value) ==
  /\ Len(row) = Len(headers)
  /\ row[log_date_col] = log_date
  /\ row[item_col] = value
  /\ \A c \in 1..Len(row) : c \notin {log_date_col, item_col} => row[c] = <<>>

\* C7: a successful log_item for a date that has no row in the owning table
\* appends exactly one new row to it, whose date-key cell equals the date,
\* whose target cell holds the new value and whose every other cell is
\* empty; a successful log_item for a date that has a row adds no row.
C7_OneNewRow ==
  Succeeded =>
    IF HasRowOn(last.before, last.group, last.date)
      THEN Len(RowsOf(files, last.group)) = Len(RowsOf(last.before, last.group))
      ELSE /\ Len(RowsOf(files, last.group)) = Len(RowsOf(last.before, last.group)) + 1
           /\ FreshRow(RowsOf(files, last.group)[Len(RowsOf(files, last.group))],
                       HeadersOf(files, last.group),
                       IndexOf("Log_Date", HeadersOf(files, last.group)),
                       last.date, last.col, last.value)

---------------------------------------------------------------------------
(* C8: the day view                                                        *)

Viewed == last.op = "show_day"

\* the first row of the table whose date key is the date (0: none)
FirstRowOn(fs, name, log_date) ==
  IF HasRowOn(fs, name, log_date)
    THEN CHOOSE i \in 1..Len(RowsOf(fs, name)) :
           /\ DateKey(RowsOf(fs, name)[i],
                      IndexOf("Log_Date", HeadersOf(fs, name))) = log_date
           /\ \A j \in 1..(i - 1) :
                DateKey(RowsOf(fs, name)[j],
                        IndexOf("Log_Date", HeadersOf(fs, name))) /= log_date
    ELSE 0

\* the columns of the table's row for the date that hold a non-empty cell
FilledColumns(fs, name, log_date) ==
  {c \in 1..Len(HeadersOf(fs, name)) :
     /\ c <= Len(RowsOf(fs, name)[FirstRowOn(fs, name, log_date)])
     /\ RowsOf(fs, name)[FirstRowOn(fs, name, log_date)][c] /= <<>>}

\* the table has data for the date
HasData(fs, name, log_date) ==
  /\ HasDateKey(fs, name)
  /\ HasRowOn(fs, name, log_date)
  /\ FilledColumns(fs, name, log_date) /= {}

ShownGroups == {last.shown[k].group : k \in 1..Len(last.shown)}

\* the entry lists the non-empty cells of the row, each under its header
ListsRow(entry, fs, log_date) ==
  /\ Len(entry.pairs) = Cardinality(FilledColumns(fs, entry.group, log_date))
  /\ \A c \in FilledColumns(fs, entry.group, log_date) :
       \E k \in 1..Len(entry.pairs) :
         entry.pairs[k] =
           <<HeadersOf(fs, entry.group)[c],
             RowsOf(fs, entry.group)[FirstRowOn(fs, entry.group, log_date)][c]>>

\* C8: show_day leaves a table out of its output when every cell of the
\* table's row for the date is empty, passes over a table without a Log_Date
\* column without aborting, still renders every other table that has data
\* for the date, and reports "no data" when no table yields data.  (A file
\* that does not load aborts the view; that is not what the claim is about.)
C8_DayView ==
  (Viewed /\ AllLoad(last.before)) =>
    /\ last.outcome \in {"ok", "no_data"}
    /\ \A name \in DOMAIN files :
         name \in ShownGroups <=> HasData(files, name, last.date)
    /\ \A k \in 1..Len(last.shown) : ListsRow(last.shown[k], files, last.date)
    /\ Len(last.shown) = Cardinality(ShownGroups)
    /\ last.outcome = "no_data" <=> ShownGroups = {}
    /\ eventLog[Len(eventLog)] =
         IF ShownGroups = {} THEN <<"NODATA", last.date>>
         ELSE <<"SHOW", last.date, Len(last.shown)>>

\* study holds a row for the empty date whose cells are all empty and is left
\* out, while habits, which has data for that date, is listed
C8_Witness ==
  /\ Viewed /\ last.date = NoDate
  /\ ShownGroups = {"habits"}
  /\ HasRowOn(files, "study", NoDate)
  /\ FilledColumns(files, "study", NoDate) = {}

---------------------------------------------------------------------------
(* C9: parse_duration_to_seconds and format_seconds_as_duration, applied   *)
(* to totals and to texts drawn from bounded sets                          *)

\* every hour count up to here is probed, and a few large ones
MaxProbeHours == 2

ProbeHours == (0..MaxProbeHours) \cup {99, 100, 101, 2777}

ProbeSeconds == {h * 3600 + m * 60 + x : h \in ProbeHours, m \in 0..59, x \in 0..59}

\* field texts, canonical or not, valid or not
HourFields == {<<"0">>, <<"0", "7">>, <<"1", "0", "0">>, <<"+", "1">>, <<"-", "1">>}

MinuteFields ==
  {<<"0">>, <<"5">>, <<"0", "5">>, <<"5", "9">>, <<" ", "7">>, <<"6", "0">>, <<"x">>, <<>>}

ProbeTexts ==
  {m \o <<":">> \o x : m \in MinuteFields, x \in MinuteFields}
    \cup {h \o <<":">> \o m \o <<":">> \o x :
            h \in HourFields, m \in MinuteFields, x \in MinuteFields}

ProbeInit ==
  /\ files = <<>>
  /\ eventLog = <<>>
  /\ last = NoOp
  /\ nops = 0
  /\ procs = <<>>
  /\ durSum = 0
  /\ probe \in {[stage |-> "seconds", seconds |-> n, text |-> <<>>,
                 back |-> [ok |-> FALSE, val |-> 0], again |-> <<>>] : n \in ProbeSeconds}
             \cup
               {[stage |-> "text", seconds |-> 0, text |-> t,
                 back |-> [ok |-> FALSE, val |-> 0], again |-> <<>>] : t \in ProbeTexts}

\* format a total, then parse the text
FormatThenParse ==
  /\ probe.stage = "seconds"
  /\ probe' = [probe EXCEPT
                 !.stage = "round_trip",
                 !.text  = format_seconds_as_duration(probe.seconds).val,
                 !.back  = parse_duration_to_seconds(
                             format_seconds_as_duration(probe.seconds).val)]
  /\ UNCHANGED <<files, eventLog, last, nops, procs, durSum>>

\* the canonical form of a parsed text
Canonical(parsed) == format_seconds_as_duration(parsed.val).val

\* parse a valid text and format it, then do both once more
ParseThenFormat ==
  /\ probe.stage = "text"
  /\ parse_duration_to_seconds(probe.text).ok
  /\ probe' = [probe EXCEPT
                 !.stage   = "canonical",
                 !.seconds = parse_duration_to_seconds(probe.text).val,
                 !.back    = parse_duration_to_seconds(
                               Canonical(parse_duration_to_seconds(probe.text))),
                 !.again   = Canonical(parse_duration_to_seconds(
                               Canonical(parse_duration_to_seconds(probe.text))))]
  /\ UNCHANGED <<files, eventLog, last, nops, procs, durSum>>

\* an invalid text is refused
ParseRefused ==
  /\ probe.stage = "text"
  /\ ~parse_duration_to_seconds(probe.text).ok
  /\ probe' = [probe EXCEPT !.stage = "refused"]
  /\ UNCHANGED <<files, eventLog, last, nops, procs, durSum>>

ProbeNext == FormatThenParse \/ ParseThenFormat \/ ParseRefused

ProbeSpec == ProbeInit /\ [][ProbeNext]_vars

\* C9: for every total n >= 0, parse_duration_to_seconds of
\* format_seconds_as_duration(n) is n, totals of 100 hours or more included;
\* so for every valid duration text s, format(parse(s)) is a fixed point of
\* format after parse.
C9_ExactInverses ==
  /\ probe.stage = "round_trip" => (probe.back.ok /\ probe.back.val = probe.seconds)
  /\ probe.stage = "canonical"
       => /\ probe.back.ok /\ probe.back.val = probe.seconds
          /\ probe.again = format_seconds_as_duration(probe.seconds).val

\* a total of more than 100 hours that came back from its three-digit text
C9_Witness ==
  /\ probe.stage = "round_trip"
  /\ probe.seconds = 101 * 3600 + 59 * 60 + 59
  /\ probe.text = <<"1", "0", "1", ":", "5", "9", ":", "5", "9">>
  /\ probe.back.val = probe.seconds

---------------------------------------------------------------------------
(* C10: two log_item invocations running at once. An invocation reads the  *)
(* store in find_item_location (groups.py 188), works on what it read, and *)
(* writes its table in save_group_csv (groups.py 326); nothing orders the  *)
(* reads and writes of one invocation against those of the other           *)

Invocations == {"A", "B"}

RaceStores == {Store({"study"}), Store({"habits", "study"})}

RaceItems == {"Minutes", "Focus_Time", "Mood", "Sleep"}

RaceValues == {<<"+", "7">>, <<"1", "0", ":", "0", "0">>, <<"a", "b">>, <<"n", "a">>}

RaceDates == {D1, D2}

NotStarted ==
  [pc |-> "start", item |-> "", value |-> <<>>, date |-> <<>>, outcome |-> "",
   group |-> "", table |-> <<>>, line |-> <<>>, loaded |-> 0, saved |-> 0]

\* last.before keeps the store both invocations start from
RaceInit ==
  /\ files \in RaceStores
  /\ eventLog = <<>>
  /\ last = [NoOp EXCEPT !.before = files]
  /\ nops = 0
  /\ probe = <<>>
  /\ procs = [p \in Invocations |-> NotStarted]
  /\ durSum = 0

\* what an invocation holds once steps 1 to 6 have run on the store it read:
\* the table it is about to write, or the error it raised
Held(r, now) ==
  [pc      |-> IF r.outcome = "ok" THEN "held" ELSE "done",
   item    |-> r.item, value |-> <<>>, date |-> r.date, outcome |-> r.outcome,
   group   |-> r.group,
   table   |-> IF r.outcome = "ok" THEN r.files[r.group] ELSE <<>>,
   line    |-> r.line, loaded |-> now, saved |-> 0]

\* steps 1 to 6 of log_item: read the store, locate, find or create the row,
\* resolve the value in memory
Load(p, item_name, value_str, log_date) ==
  /\ procs[p].pc = "start"
  /\ procs' = [procs EXCEPT
                 ![p] = [Held(log_item(files, item_name, value_str, log_date), nops + 1)
                           EXCEPT !.value = value_str]]
  /\ nops' = nops + 1
  /\ UNCHANGED <<files, eventLog, last, probe, durSum>>

\* a save that reads the store again and applies the update to what it finds
table_to_save_reloaded(fs, inv) ==
  log_item(fs, inv.item, inv.value, inv.date).files[inv.group]

\* the table save_group_csv is handed: the one held in memory since the load
table_to_save(fs, inv) == inv.table

\* steps 7 and 8: the whole table is written over the file, the line logged
Save(p) ==
  /\ procs[p].pc = "held"
  /\ files' = save_group_csv(files, procs[p].group,
                             table_to_save(files, procs[p])[1],
                             table_to_save(files, procs[p])[2],
                             SubSeq(table_to_save(files, procs[p]), 3,
                                    Len(table_to_save(files, procs[p]))))
  /\ eventLog' = log_event(eventLog, procs[p].line)
  /\ procs' = [procs EXCEPT ![p].pc = "done", ![p].saved = nops + 1]
  /\ nops' = nops + 1
  /\ UNCHANGED <<last, probe, durSum>>

RaceNext ==
  \E p \in Invocations :
    \/ \E item_name \in RaceItems, value_str \in RaceValues, log_date \in RaceDates :
         Load(p, item_name, value_str, log_date)
    \/ Save(p)

RaceSpec == RaceInit /\ [][RaceNext]_vars

\* invocation p run alone on store fs
Alone(fs, p) == log_item(fs, procs[p].item, procs[p].value, procs[p].date)

BothDone == \A p \in Invocations : procs[p].pc = "done"

\* b read the store before a wrote it, and wrote after a
Overlapped(a, b) ==
  /\ procs[a].saved > 0
  /\ procs[b].loaded < procs[a].saved
  /\ procs[a].saved < procs[b].saved

\* b started after a had finished
Serialized(a, b) == procs[a].saved > 0 /\ procs[a].saved < procs[b].loaded

\* C10: two log_item invocations on the same table are not isolated. When
\* the second loads before the first saves and saves after it, the store
\* ends as if the second had run alone: the first update is absent, both
\* returned without an error and both logged their line. When the second
\* starts after the first has saved, the store ends as the two calls run one
\* after the other leave it.
C10_LastWriterWins ==
  \A a \in Invocations, b \in Invocations :
    (a /= b /\ BothDone /\ procs[a].group = procs[b].group)
      => /\ Overlapped(a, b)
              => /\ files = Alone(last.before, b).files
                 /\ procs[a].outcome = "ok" /\ procs[b].outcome = "ok"
                 /\ eventLog = <<procs[a].line, procs[b].line>>
         /\ Serialized(a, b)
              => /\ files = Alone(Alone(last.before, a).files, b).files
                 /\ procs[b].outcome = Alone(Alone(last.before, a).files, b).outcome

\* A set Minutes and B added Focus_Time on the same day of the same table, B
\* having read before A wrote: Minutes is back to what it was, and the store
\* is not the one the two calls leave when run one after the other
C10_Witness ==
  /\ BothDone
  /\ Overlapped("A", "B")
  /\ procs["A"].group = "study" /\ procs["B"].group = "study"
  /\ procs["A"].item = "Minutes" /\ procs["B"].item = "Focus_Time"
  /\ procs["A"].date = D1 /\ procs["B"].date = D1
  /\ Alone(last.before, "A").files["study"][3][2] = <<"7">>
  /\ files["study"][3][2] = <<"4", "5">>
  /\ files["study"][3][3] = <<"0", "0", ":", "1", "0", ":", "0", "0">>
  /\ files /= Alone(Alone(last.before, "A").files, "B").files

---------------------------------------------------------------------------
(* The dispatcher main (log_tool.py 494-583), one run of the program after *)
(* another.  procs is the running process: where it is in main, its        *)
(* arguments, the store and log length it started from, the exception it   *)
(* raised and, once the interpreter has returned, its exit status          *)

\* runs of the program
MaxRuns == 2

\* today_iso()
Today == D2

DashD1 == <<"-">> \o D1

\* sys.argv[1:]
MainArgs ==
  {<<"log", item_name, value_str>> :
      item_name \in {"Minutes", "Log_Date", "Pages", "Sleep"},
      value_str \in {<<"+", "7">>, <<"a", "b">>}}
    \cup {<<"log", "Minutes", value_str, date_flag>> :
            value_str \in {<<"+", "7">>, <<"a", "b">>},
            date_flag \in {DashD1, D1, <<>>}}
    \cup {<<>>, <<"log", "Minutes">>, <<"show">>, <<"show", D1>>, <<"show", D1, D1>>,
          <<"history">>, <<"undo">>}

MainStores ==
  {Store({"study"}), Store({"habits", "study"}), Store({"legacy", "study"}),
   Store({"scratch", "study"}), Store({})}

NotRunning ==
  [pc |-> "idle", args |-> <<>>, before |-> <<>>, mark |-> 0, raised |-> "",
   line |-> <<>>, exit |-> 0]

MainInit ==
  /\ files \in MainStores
  /\ eventLog = <<>>
  /\ last = NoOp
  /\ nops = 0
  /\ probe = <<>>
  /\ procs = NotRunning
  /\ durSum = 0

\* line 499: the command line is logged before anything else
MainStart(args) ==
  /\ procs.pc \in {"idle", "exited"}
  /\ nops < MaxRuns
  /\ eventLog' = log_event(eventLog, <<"CMD", args>>)
  /\ procs' = [NotRunning EXCEPT !.pc = "started", !.args = args, !.before = files,
                                 !.mark = Len(eventLog)]
  /\ UNCHANGED <<files, last, nops, probe, durSum>>

\* a branch of main that prints, logs one line and returns
Returned(fs, log, line) ==
  [files |-> fs, log |-> log_event(log, line), pc |-> "returned", raised |-> "",
   line |-> <<>>]

\* an exception on its way to the except clause
Raised(fs, log, outcome) ==
  [files |-> fs, log |-> log, pc |-> "raised", raised |-> outcome, line |-> <<>>]

\* a log_item that also confirms an update it refused
run_log_item_confirming_refused(fs, log, r) ==
  IF r.outcome \in {"ok", "validation"}
    THEN [files |-> r.files, log |-> log, pc |-> "saved", raised |-> "",
          line |-> <<"UPDATED", r.item, r.group, r.date, r.previous, r.value>>]
    ELSE Raised(fs, log, r.outcome)

\* log_item up to and including step 7: the table is saved, the message not
\* yet logged
run_log_item(fs, log, r) ==
  IF r.outcome = "ok"
    THEN [files |-> r.files, log |-> log, pc |-> "saved", raised |-> "", line |-> r.line]
    ELSE Raised(fs, log, r.outcome)

run_show_day(fs, log, r) ==
  IF r.outcome \in {"ok", "no_data"}
    THEN Returned(r.files, log, r.line)
    ELSE Raised(fs, log, r.outcome)

\* date_flag.startswith("-")
StartsWithDash(date_flag) == Len(date_flag) > 0 /\ date_flag[1] = "-"

\* lines 522 to 532: None becomes today in log_item, the flag loses its dash
log_date_of(args) == IF Len(args) = 4 THEN Tail(args[4]) ELSE Today

dispatch_log(fs, log, args) ==
  IF Len(args) \notin {3, 4} THEN Returned(fs, log, <<"ERROR", "usage_log">>)
  ELSE IF Len(args) = 4 /\ ~StartsWithDash(args[4])
    THEN Returned(fs, log, <<"ERROR", "date_flag">>)
  ELSE run_log_item(fs, log, log_item(fs, args[2], args[3], log_date_of(args)))

dispatch_show(fs, log, args) ==
  IF Len(args) = 1 THEN run_show_day(fs, log, show_day(fs, Today))
  ELSE IF Len(args) = 2 THEN run_show_day(fs, log, show_day(fs, args[2]))
  ELSE Returned(fs, log, <<"ERROR", "usage_show">>)

\* show_history only reads log.txt and prints
dispatch_history(fs, log, args) ==
  [files |-> fs, log |-> log, pc |-> "returned", raised |-> "", line |-> <<>>]

dispatch(fs, log, args) ==
  IF Len(args) = 0 THEN Returned(fs, log, <<"INFO", "usage">>)
  ELSE IF args[1] = "log" THEN dispatch_log(fs, log, args)
  ELSE IF args[1] = "show" THEN dispatch_show(fs, log, args)
  ELSE IF args[1] = "history" THEN dispatch_history(fs, log, args)
  ELSE Returned(fs, log, <<"ERROR", "unknown_command">>)

Moved(proc, d) == [proc EXCEPT !.pc = d.pc, !.raised = d.raised, !.line = d.line]

\* lines 502 to 577: the command runs until it returns, raises, or has
\* saved its table
MainDispatch ==
  /\ procs.pc = "started"
  /\ files' = dispatch(files, eventLog, procs.args).files
  /\ eventLog' = dispatch(files, eventLog, procs.args).log
  /\ procs' = Moved(procs, dispatch(files, eventLog, procs.args))
  /\ UNCHANGED <<last, nops, probe, durSum>>

\* log_item step 8 (groups.py 328-334): the confirmation goes to log.txt
MainConfirm ==
  /\ procs.pc = "saved"
  /\ eventLog' = log_event(eventLog, procs.line)
  /\ procs' = [procs EXCEPT !.pc = "returned"]
  /\ UNCHANGED <<files, last, nops, probe, durSum>>

\* lines 579 to 583: except Exception logs and prints the error; main then
\* returns as it does after a success
MainExcept ==
  /\ procs.pc = "raised"
  /\ eventLog' = log_event(eventLog, <<"log-tool: ERROR", procs.raised>>)
  /\ procs' = [procs EXCEPT !.pc = "returned"]
  /\ UNCHANGED <<files, last, nops, probe, durSum>>

\* the status the interpreter exits with: 1 when an exception left main,
\* 0 when main returned
ExitStatus(uncaught) == IF uncaught THEN 1 ELSE 0

\* lines 586 to 587: main() has returned and the interpreter exits
MainExit ==
  /\ procs.pc = "returned"
  /\ procs' = [procs EXCEPT !.pc = "exited", !.exit = ExitStatus(FALSE)]
  /\ nops' = nops + 1
  /\ UNCHANGED <<files, eventLog, last, probe, durSum>>

MainNext ==
  \/ \E args \in MainArgs : MainStart(args)
  \/ MainDispatch
  \/ MainConfirm
  \/ MainExcept
  \/ MainExit

MainSpec == MainInit /\ [][MainNext]_vars

---------------------------------------------------------------------------
(* Properties of the dispatcher                                            *)

\* the lines the current run has appended to log.txt
RunLines == SubSeq(eventLog, procs.mark + 1, Len(eventLog))

\* the fatal conditions of log_item and show_day
Fatal ==
  {"no_files", "malformed", "no_log_date", "not_found", "ambiguous", "validation",
   "unsupported"}

Exited == procs.pc = "exited"

\* C11: every fatal condition raised by log_item or show_day is caught by
\* main, aborts that operation only (no table is written), and becomes a
\* non-zero exit status plus one error line appended to the event log.
C11_FatalCaught ==
  (Exited /\ procs.raised \in Fatal)
    => /\ files = procs.before
       /\ Len(RunLines) = 2
       /\ RunLines[1][1] = "CMD"
       /\ RunLines[2] = <<"log-tool: ERROR", procs.raised>>
       /\ procs.exit /= 0

---------------------------------------------------------------------------
(* C12: sequences of log_item calls on the typed columns of two tables,    *)
(* with inputs at and around the edges of every validator                  *)

TypedItems == {"Minutes", "Focus_Time", "Mood", "Done", "Note"}

TypedValues ==
  { <<"0">>, <<"1", "0">>, <<"1", "1">>, <<"-", "0">>, <<"0", "0", "7">>,
    <<" ", "1", " ">>, <<"-", "1", "2">>, <<"y">>, <<"N", "o">>,
    <<"5", ":", "3">>, <<"9", "9", ":", "5", "9", ":", "5", "9">>,
    <<"1", ":", "6", "0">>, <<"n", "/", "a">> }

TypedInit ==
  /\ files = Store({"habits", "study"})
  /\ eventLog = <<>>
  /\ last = NoOp
  /\ nops = 0
  /\ probe = <<>>
  /\ procs = <<>>
  /\ durSum = 0

TypedNext ==
  \E item_name \in TypedItems, value_str \in TypedValues :
    LogItem(item_name, value_str, D1)

TypedSpec == TypedInit /\ [][TypedNext]_vars

AllDigits(s) == Len(s) > 0 /\ \A i \in 1..Len(s) : IsDigit(s[i])

\* decimal digits with no leading zero
CanonNat(s) == AllDigits(s) /\ (Len(s) = 1 \/ s[1] /= "0")

CanonInteger(s) ==
  \/ CanonNat(s)
  \/ Len(s) > 1 /\ s[1] = "-" /\ CanonNat(Tail(s)) /\ Tail(s) /= <<"0">>

CanonBoolean(s) == s \in {<<"T", "R", "U", "E">>, <<"F", "A", "L", "S", "E">>}

CanonRange(s) == s \in {<<DigitChars[i]>> : i \in 2..10} \cup {<<"1", "0">>}

\* two digits naming a number below sixty
Sexagesimal(a, b) == a \in {"0", "1", "2", "3", "4", "5"} /\ IsDigit(b)

CanonDuration(s) ==
  /\ Len(s) >= 8
  /\ AllDigits(SubSeq(s, 1, Len(s) - 6))
  /\ s[Len(s) - 5] = ":" /\ Sexagesimal(s[Len(s) - 4], s[Len(s) - 3])
  /\ s[Len(s) - 2] = ":" /\ Sexagesimal(s[Len(s) - 1], s[Len(s)])

CanonicalFor(item_type, cell) ==
  IF item_type = "integer" THEN CanonInteger(cell)
  ELSE IF item_type = "boolean" THEN CanonBoolean(cell)
  ELSE IF item_type = "int_range" THEN CanonRange(cell)
  ELSE IF item_type = "duration" THEN CanonDuration(cell)
  ELSE FALSE

\* C12: after any successful log_item, whatever calls came before it, the
\* target cell holds "N/A" or a canonical value of the column's declared
\* type: a canonical decimal integer, TRUE or FALSE, one of 1..10, or
\* hh:mm:ss with minutes and seconds in 00..59.
C12_TypedCells ==
  Succeeded
    => \/ TargetCell(files, last) = NA
       \/ CanonicalFor(LastType, TargetCell(files, last))

\* a second call has set a rating, already written once, to the upper edge
C12_Witness ==
  /\ Succeeded /\ nops = 2
  /\ LastType = "int_range"
  /\ last.previous \notin {NA, <<"1", "0">>}
  /\ CanonRange(last.previous)
  /\ TargetCell(last.before, last) = last.previous
  /\ TargetCell(files, last) = <<"1", "0">>

---------------------------------------------------------------------------
(* C13: log_item on a table holding a short row, a row longer than the     *)
(* header and a blank row, next to a second table                          *)

D3 == <<"2", "0", "2", "6", "-", "0", "2", "-", "0", "3">>

\* data/study.csv as a hand-edited file may look
RaggedFile ==
  << <<"Log_Date", "Minutes", "Focus_Time">>,
     <<"date", "integer", "duration">>,
     <<D1, <<"4", "5">> >>,
     <<D2, <<"5">>, <<"0", "0", ":", "1", "0", ":", "0", "0">>, <<"x">> >>,
     <<>> >>

RaggedStore == [n \in {"habits", "study"} |-> IF n = "study" THEN RaggedFile ELSE HabitsFile]

RaggedItems == {"Log_Date", "Minutes", "Focus_Time", "Mood"}

RaggedValues == {<<"+", "7">>, <<"1", "0", ":", "0", "0">>, <<"n", "a">>, <<"a", "b">>}

RaggedDates == {D1, D2, D3}

RaggedInit ==
  /\ files = RaggedStore
  /\ eventLog = <<>>
  /\ last = NoOp
  /\ nops = 0
  /\ probe = <<>>
  /\ procs = <<>>
  /\ durSum = 0

RaggedNext ==
  \E item_name \in RaggedItems, value_str \in RaggedValues, log_date \in RaggedDates :
    LogItem(item_name, value_str, log_date)

RaggedSpec == RaggedInit /\ [][RaggedNext]_vars

\* the length row i of the owning table must have after the call: a short
\* row the scan reached has the header's length, any other row its own
LengthAfter(old, i, n, target_row) ==
  IF i <= target_row /\ Len(old) < n THEN n ELSE Len(old)

\* row i of the owning table, before and after: no cell but the target cell
\* changed, and what was added on the right is empty cells
RowKept(old, new, i, n, target_row, target_col) ==
  /\ Len(new) = LengthAfter(old, i, n, target_row)
  /\ \A j \in 1..Len(new) :
       (i /= target_row \/ j /= target_col)
         => new[j] = (IF j <= Len(old) THEN old[j] ELSE <<>>)

\* C13: a successful log_item rewrites only the owning table. Every other
\* table is unchanged; in the owning table the headers, the types, the order
\* of the existing rows and every cell but the target cell are kept; rows
\* shorter than the header are right-padded with empty cells when the scan
\* reached them (up to and including the matched row) and no others; no row
\* is removed or truncated.
C13_Frame ==
  Succeeded
    => /\ DOMAIN files = DOMAIN last.before
       /\ \A name \in DOMAIN files :
            name /= last.group => files[name] = last.before[name]
       /\ HeadersOf(files, last.group) = HeadersOf(last.before, last.group)
       /\ TypesOf(files, last.group) = TypesOf(last.before, last.group)
       /\ Len(RowsOf(files, last.group))
            = Len(RowsOf(last.before, last.group)) + (IF last.created THEN 1 ELSE 0)
       /\ \A i \in 1..Len(RowsOf(last.before, last.group)) :
            RowKept(RowsOf(last.before, last.group)[i], RowsOf(files, last.group)[i], i,
                    Len(HeadersOf(files, last.group)), last.row, last.col)

\* the call matched the second row, longer than the header: the short first
\* row was padded, the long row kept its extra cell and the blank third row,
\* which the scan never reached, is still blank
C13_Witness ==
  /\ Succeeded /\ ~last.created
  /\ last.before = RaggedStore
  /\ last.group = "study" /\ last.row = 2 /\ last.item = "Minutes"
  /\ RowsOf(files, "study")[1] = <<D1, <<"4", "5">>, <<>> >>
  /\ RowsOf(files, "study")[2]
       = <<D2, <<"7">>, <<"0", "0", ":", "1", "0", ":", "0", "0">>, <<"x">> >>
  /\ RowsOf(files, "study")[3] = <<>>
  /\ files["habits"] = HabitsFile

---------------------------------------------------------------------------
(* C14: a duration logged over a cell that holds no readable total         *)

\* the cell the last call found in the row it matched (<<>>: the row was
\* created, or was too short to hold the cell)
FoundCell ==
  IF last.created \/ last.row > Len(RowsOf(last.before, last.group)) THEN <<>>
  ELSE IF last.col > Len(RowsOf(last.before, last.group)[last.row]) THEN <<>>
  ELSE RowsOf(last.before, last.group)[last.row][last.col]

\* non-empty, and either "N/A" or not a duration
Unreadable(cell) ==
  cell /= <<>> /\ (cell = NA \/ ~parse_duration_to_seconds(cell).ok)

\* C14: when a valid duration input d is logged to a duration cell whose
\* content is non-empty and does not parse as a duration, or is "N/A", the
\* call succeeds, the existing total counts as 0 seconds, the cell holds
\* format_seconds_as_duration(parse_duration_to_seconds(d)) and the previous
\* value is reported as "00:00:00".
C14_ToleratedCorruption ==
  \A value_str \in Values :
    ( /\ Logged /\ last.outcome \in {"ok", "validation"}
      /\ LastType = "duration"
      /\ parse_duration_to_seconds(value_str).ok
      /\ LastInput(value_str)
      /\ Unreadable(FoundCell) )
    => /\ last.outcome = "ok"
       /\ TargetCell(files, last)
            = format_seconds_as_duration(parse_duration_to_seconds(value_str).val).val
       /\ last.previous = <<"0", "0", ":", "0", "0", ":", "0", "0">>
       /\ eventLog[Len(eventLog)]
            = <<"UPDATED", last.item, last.group, last.date,
                <<"0", "0", ":", "0", "0", ":", "0", "0">>, TargetCell(files, last)>>

\* "5:3" logged over the unreadable total "1h": the cell holds "00:05:03"
C14_Witness ==
  /\ Succeeded /\ LastType = "duration"
  /\ FoundCell = <<"1", "h">>
  /\ LastInput(<<"5", ":", "3">>)
  /\ last.previous = <<"0", "0", ":", "0", "0", ":", "0", "0">>
  /\ TargetCell(files, last) = <<"0", "0", ":", "0", "5", ":", "0", "3">>

---------------------------------------------------------------------------
(* C15: a column whose type tag the engine does not support                *)

SupportedTypes == {"integer", "duration", "boolean", "int_range"}

\* the call found its column in exactly one table
LocatedOne == Logged /\ last.outcome \in {"ok", "validation", "unsupported"}

\* C15: for an item whose type tag is none of integer, duration, boolean,
\* int_range, a log_item with an input other than the N/A sentinel fails
\* with the unsupported-type error, raised for that item in its owning table
\* under that type tag; every persisted table is unchanged (a dated row
\* created in memory is not persisted) and no line is logged.
C15_UnsupportedType ==
  \A value_str \in Values :
    ( /\ LocatedOne
      /\ LastType \notin SupportedTypes
      /\ ~is_na_input(value_str)
      /\ LastInput(value_str) )
    => /\ last.outcome = "unsupported"
       /\ files = last.before
       /\ Holders(last.before, last.item) = {last.group}
       /\ HeadersOf(last.before, last.group)[last.col] = last.item
       /\ log_item(last.before, last.item, value_str, last.date).line = <<>>

\* "45" for the text column Note on a date the table has no row for: the
\* row made in memory is not in the file
C15_Witness ==
  /\ Logged /\ last.outcome = "unsupported"
  /\ last.item = "Note" /\ last.group = "habits" /\ LastType = "text"
  /\ LastInput(<<"4", "5">>)
  /\ last.created /\ last.date = D2
  /\ ~HasRowOn(files, "habits", D2)
  /\ files = last.before

---------------------------------------------------------------------------
(* C16: what show_day persists                                             *)

\* C16: show_day is read-only with respect to the tables: for any date and
\* any table contents, rows shorter than the header that it pads in memory
\* included, no persisted table differs after it from before it. All it
\* persists is one line appended to the event log, the summary or the
\* no-data line, once it has run to its end; when it raises it persists
\* nothing.
C16_ShowReadOnly ==
  [][ last'.op = "show_day"
        => /\ files' = files
           /\ last'.before = files
           /\ IF last'.outcome \in {"ok", "no_data"}
                THEN /\ Len(eventLog') = Len(eventLog) + 1
                     /\ SubSeq(eventLog', 1, Len(eventLog)) = eventLog
                     /\ eventLog'[Len(eventLog')][1] \in {"SHOW", "NODATA"}
                     /\ eventLog'[Len(eventLog')][2] = last'.date
                ELSE eventLog' = eventLog ]_vars

\* the day viewed is held in a row shorter than the header, which the viewer
\* padded in memory: the file still holds the short row
C16_Witness ==
  /\ Viewed /\ last.outcome = "ok" /\ last.date = D1
  /\ "habits" \in ShownGroups
  /\ \E i \in 1..Len(RowsOf(files, "habits")) :
       /\ Len(RowsOf(files, "habits")[i]) < Len(HeadersOf(files, "habits"))
       /\ DateKey(RowsOf(files, "habits")[i], IndexOf("Log_Date", HeadersOf(files, "habits"))) = D1
  /\ files = last.before
  /\ eventLog[Len(eventLog)][1] = "SHOW"

---------------------------------------------------------------------------
(* C17: the lines one "log" command leaves in log.txt                      *)

LogCommand == Len(procs.args) > 0 /\ procs.args[1] = "log"

\* the command line had the shape log_item is called for
LogCalled == LogCommand /\ Len(procs.args) \in {3, 4}
               /\ (Len(procs.args) = 4 => StartsWithDash(procs.args[4]))

\* what log_item leaves when run on the store the command started from
CallOf(proc) == log_item(proc.before, proc.args[2], proc.args[3], log_date_of(proc.args))

\* the step appended this kind of line
Appended(kind) ==
  /\ Len(eventLog') = Len(eventLog) + 1
  /\ eventLog'[Len(eventLog')][1] = kind

\* C17: the event log is append-only. For one "log" command, the CMD line is
\* appended before any table is touched and is followed by exactly one
\* outcome line: the confirmation, appended only after the owning table has
\* been saved, or an error line with no table written. A confirmation never
\* appears for a call whose table was not saved.
C17_EventOrder ==
  [][ /\ Len(eventLog') >= Len(eventLog)
      /\ SubSeq(eventLog', 1, Len(eventLog)) = eventLog
      /\ procs'.pc = "started"
           => /\ eventLog' = Append(eventLog, <<"CMD", procs'.args>>)
              /\ files' = files
      /\ files' /= files
           => /\ procs.pc = "started" /\ LogCalled
              /\ Len(RunLines) = 1 /\ RunLines[1][1] = "CMD"
              /\ eventLog' = eventLog
              /\ procs'.pc = "saved"
      /\ Appended("UPDATED")
           => /\ procs.pc = "saved" /\ LogCalled
              /\ CallOf(procs).outcome = "ok"
              /\ files = CallOf(procs).files
              /\ files' = files
              /\ eventLog'[Len(eventLog')] = CallOf(procs).line
      /\ (procs'.pc = "exited" /\ LogCommand')
           => /\ Len(RunLines') = 2
              /\ RunLines'[1][1] = "CMD"
              /\ RunLines'[2][1] \in {"UPDATED", "ERROR", "log-tool: ERROR"}
              /\ RunLines'[2][1] /= "UPDATED" => files' = procs'.before
    ]_vars

\* a log command has exited after its CMD line and its confirmation, the
\* table saved with the new value
C17_Witness ==
  /\ Exited /\ LogCalled
  /\ Len(RunLines) = 2
  /\ RunLines[1] = <<"CMD", procs.args>>
  /\ RunLines[2][1] = "UPDATED"
  /\ files /= procs.before
  /\ files = CallOf(procs).files

===========================================================================
